---- MODULE Spec2Model ----
(***************************************************************************)
(* Model of trading_bot.py: the single-position trading loop               *)
(* run_trading_bot and the functions it calls.                             *)
(*                                                                         *)
(* Numbers.  Prices and balances are whole quote-currency units.           *)
(* Quantities are exact decimals held as integers in units of 10^-8 (the   *)
(* resolution of the exchange's decimal strings); the binary rounding      *)
(* error of Python floats is not modelled.  Ratios (the Kelly fraction,    *)
(* the amount to invest, the percent change) are exact pairs <<num, den>>. *)
(* Decimal strings are sequences of one-character strings.                 *)
(***************************************************************************)
EXTENDS Integers, Sequences, FiniteSets, TLC

\* Python's None: "None" for a symbol, the empty tuple for a tuple or an
\* optional record (an empty tuple is falsy in Python, as None is)
None == "None"
Nil == << >>
Some(x) == << x >>

\* ---------------------------------------------------------------- bounds
NumCryptos == 2      \* length of the watchlist prefix that is scanned
MaxUnsold  == 2      \* accepted buys not yet sold that the exchange tolerates
MaxSells   == 2      \* accepted sells of one ActiveTrade that the exchange tolerates

\* ------------------------------------------------------- program constants
AllCryptos ==
    << "BTCUSDT", "ETHUSDT", "BNBUSDT", "XRPUSDT", "ADAUSDT", "SOLUSDT",
       "DOGEUSDT", "DOTUSDT", "AVAXUSDT", "LTCUSDT", "LINKUSDT" >>

cryptos == SubSeq(AllCryptos, 1, NumCryptos)

MinBalance == 10
win_prob == <<6, 10>>
win_loss_ratio == 2
target_gain == <<1005, 1000>>
SellDecimals == 6

\* ------------------------------------------------------------ fixed point
QtyDecimals == 8

RECURSIVE Pow10(_)
Pow10(n) == IF n = 0 THEN 1 ELSE 10 * Pow10(n - 1)

QtyScale == Pow10(QtyDecimals)

Max(a, b) == IF a >= b THEN a ELSE b

DigitVal(c) ==
    CASE c = "0" -> 0 [] c = "1" -> 1 [] c = "2" -> 2 [] c = "3" -> 3
      [] c = "4" -> 4 [] c = "5" -> 5 [] c = "6" -> 6 [] c = "7" -> 7
      [] c = "8" -> 8 [] c = "9" -> 9

\* str.find(ch): 0-based index of the first occurrence, -1 when absent
RECURSIVE FindFrom(_, _, _)
FindFrom(s, ch, k) ==
    IF k > Len(s) THEN -1
    ELSE IF s[k] = ch THEN k - 1
    ELSE FindFrom(s, ch, k + 1)

Find(s, ch) == FindFrom(s, ch, 1)

RECURSIVE DigitsVal(_, _, _, _)
DigitsVal(s, from, to, acc) ==
    IF from > to THEN acc
    ELSE DigitsVal(s, from + 1, to, acc * 10 + DigitVal(s[from]))

\* float(s) of a decimal string "ddd.dddddddd", in units of 10^-8
ParseDecimal(s) ==
    LET dot   == Find(s, ".") + 1
        nfrac == Len(s) - dot
    IN  DigitsVal(s, 1, dot - 1, 0) * QtyScale
         + DigitsVal(s, dot + 1, Len(s), 0) * Pow10(QtyDecimals - nfrac)

\* round(x, ndigits) of Python: to the nearest multiple of 10^-ndigits,
\* a tie going to the even multiple
PyRound(x, ndigits) ==
    LET m == Pow10(QtyDecimals - ndigits)
        q == x \div m
        r == x % m
    IN  IF 2 * r < m THEN q * m
        ELSE IF 2 * r > m THEN (q + 1) * m
        ELSE IF q % 2 = 0 THEN q * m ELSE (q + 1) * m

\* floor(num * 10^digits / den), digit by digit (long division)
RECURSIVE DivDigits(_, _, _, _)
DivDigits(acc, rem, den, digits) ==
    IF digits = 0 THEN acc
    ELSE DivDigits(acc * 10 + (rem * 10) \div den, (rem * 10) % den, den, digits - 1)

\* num / den as a quantity in units of 10^-8 (truncated)
TrueDiv(num, den) == DivDigits(num \div den, num % den, den, QtyDecimals)


\* ------------------------------------------------- what the exchange returns
Balances == {5, 10, 100}

Prices == {3, 2000, 2010}

\* get_klines(limit=2): two candles, each with an open and a close
Klines ==
    { << [open |-> 100, close |-> 95],  [open |-> 95,  close |-> 90]  >>,
      << [open |-> 200, close |-> 190], [open |-> 190, close |-> 180] >>,
      << [open |-> 100, close |-> 100], [open |-> 100, close |-> 105] >> }

\* LOT_SIZE filters, minQty and stepSize as the exchange's decimal strings
LotSizes ==
    { [minQty   |-> <<"0", ".", "0", "0", "1", "0", "0", "0", "0", "0">>,
       stepSize |-> <<"0", ".", "0", "0", "1", "0", "0", "0", "0", "0">>],
      [minQty   |-> <<"0", ".", "0", "1", "0", "0", "0", "0", "0", "0">>,
       stepSize |-> <<"0", ".", "0", "0", "1", "0", "0", "0", "0", "0">>],
      [minQty   |-> <<"0", ".", "0", "0", "0", "0", "0", "0", "0", "1">>,
       stepSize |-> <<"0", ".", "0", "0", "0", "0", "0", "0", "0", "1">>],
      [minQty   |-> <<"1", ".", "0", "0", "0", "0", "0", "0", "0", "0">>,
       stepSize |-> <<"1", ".", "0", "0", "0", "0", "0", "0", "0", "0">>] }

\* symbols listed in get_exchange_info()['symbols']
ExchangeSymbols == { AllCryptos[k] : k \in 1..Len(AllCryptos) }

\* the fills of an accepted market order for quantity q near price p: none,
\* one fill, or the quantity split over two fills
FillsOf(q, p) ==
    { << >>,
      << [qty |-> q, price |-> p] >>,
      << [qty |-> q - q \div 3, price |-> p], [qty |-> q \div 3, price |-> p] >> }

BuyOrders(q, p) == { [fills |-> f] : f \in FillsOf(q, p) \cup FillsOf(q, p + 10) }

SellOrders(q, p) == { [fills |-> f] : f \in FillsOf(q, p) }

\* ----------------------------------------------------------- pure functions
\* variant of kelly_criterion: the probability of a loss is not subtracted
kelly_criterionNoLoss(wp, wlr) == << wp[1] * wlr, wp[2] * wlr >>

\* kelly_criterion(win_prob, win_loss_ratio), win_prob = <<num, den>>
kelly_criterion(wp, wlr) == << wp[1] * wlr - (wp[2] - wp[1]), wp[2] * wlr >>

\* invest_using_kelly: amount_to_invest = usdt_balance * kelly_fraction
AmountToInvest(balance) ==
    LET kelly_fraction == kelly_criterion(win_prob, win_loss_ratio)
    IN  << balance * kelly_fraction[1], kelly_fraction[2] >>

\* invest_in_crypto line 85: amount_to_invest / current_price
RawQuantity(amount, price) == TrueDiv(amount[1], amount[2] * price)

\* invest_in_crypto line 103
QuantityPrecision(lot) == Find(lot.stepSize, "1") - 1

\* invest_in_crypto lines 96-104: the quantity that is submitted
NormalizedQuantity(raw, lot) ==
    LET min_qty   == ParseDecimal(lot.minQty)
        step_size == ParseDecimal(lot.stepSize)
        floored   == Max(min_qty, (raw \div step_size) * step_size)
    IN  PyRound(floored, QuantityPrecision(lot))

\* variant of SellQuantity: the amount is cut to six decimals, not rounded
SellQuantityTruncated(amount) ==
    (amount \div Pow10(QtyDecimals - SellDecimals)) * Pow10(QtyDecimals - SellDecimals)

\* sell_crypto line 138
SellQuantity(amount) == PyRound(amount, SellDecimals)

\* price_change_percent as a ratio <<num, den>>, den > 0
PriceChangePercent(ohlcv) ==
    LET opening_price == ohlcv[1].open
        closing_price == ohlcv[2].close
    IN  << (closing_price - opening_price) * 100, opening_price >>

\* variant of RatioLess: a later symbol with an equal change replaces the best
RatioLessOrEqual(a, b) == a[1] * b[2] <= b[1] * a[2]

\* line 52: price_change_percent < best_loss
RatioLess(a, b) == a[1] * b[2] < b[1] * a[2]

\* variant of TargetReached: the gain factor is left out of the comparison
TargetReachedNoGain(price, buy_price) == price >= buy_price

\* wait_for_pump line 124
TargetReached(price, buy_price) ==
    price * target_gain[2] >= buy_price * target_gain[1]

\* ------------------------------------------------------------------- state
VARIABLES
    pc,               \* position in run_trading_bot
    active_trade,     \* Nil or <<crypto, buy_price, amount_bought>>
    usdt_balance,     \* locals of the IDLE branch (0: not assigned yet)
    scan_idx,         \* position of get_top_loss_crypto's for loop
    best_loss,        \* Nil or the ratio <<num, den>>
    best_crypto,
    top_loss_crypto,
    amount_to_invest, \* Nil or the ratio <<num, den>>
    current_price,
    lot_size_filter,  \* Nil or Some(filter)
    amount_to_buy,
    order,            \* Nil (Python None) or Some(order)
    sell_order,       \* Nil (Python None) or Some(order)
    \* history (not program state)
    lastOrder,        \* the last order this iteration submitted: Some([side, symbol, quantity])
    lastBuy,          \* the last buy the exchange accepted: Some([symbol, fills])
    lastSell,         \* the last sell attempt of the ActiveTrade: Some([trade, result])
    lastPoll,         \* the last price poll of the current wait: Some([ok, price])
    unsold,           \* accepted buys not yet matched by an accepted sell
    sellsAccepted,    \* accepted sells of the current ActiveTrade
    iterTrade,        \* active_trade when the current iteration began
    iter              \* what the current iteration did so far; iter.fetched is
                      \* what each fetch of its scan returned, Some(ohlcv) or
                      \* Nil, kept until the scan's result is used; iter.balance
                      \* is the free balance it read, Some(b)

locals == << usdt_balance, scan_idx, best_loss, best_crypto, top_loss_crypto,
             amount_to_invest, current_price, lot_size_filter, amount_to_buy,
             order, sell_order >>

history == << lastOrder, lastBuy, lastSell, lastPoll, unsold, sellsAccepted,
              iterTrade, iter >>

vars == << pc, active_trade, locals, history >>

FreshIter ==
    [scanned |-> FALSE, scanDone |-> FALSE, bought |-> FALSE,
     erred |-> FALSE, low |-> FALSE, slept |-> FALSE, fetched |-> << >>,
     balance |-> Nil]

\* time.sleep(1) was called in the current iteration
Slept ==
    /\ iter' = [iter EXCEPT !.slept = TRUE]
    /\ UNCHANGED << lastOrder, lastBuy, lastSell, lastPoll, unsold, sellsAccepted,
                    iterTrade >>

FreshLocals ==
    /\ usdt_balance' = 0
    /\ scan_idx' = 0
    /\ best_loss' = Nil
    /\ best_crypto' = None
    /\ top_loss_crypto' = None
    /\ amount_to_invest' = Nil
    /\ current_price' = 0
    /\ lot_size_filter' = Nil
    /\ amount_to_buy' = 0
    /\ order' = Nil
    /\ sell_order' = Nil

Init ==
    /\ pc = "loop"
    /\ active_trade = Nil
    /\ usdt_balance = 0
    /\ scan_idx = 0
    /\ best_loss = Nil
    /\ best_crypto = None
    /\ top_loss_crypto = None
    /\ amount_to_invest = Nil
    /\ current_price = 0
    /\ lot_size_filter = Nil
    /\ amount_to_buy = 0
    /\ order = Nil
    /\ sell_order = Nil
    /\ lastOrder = Nil
    /\ lastBuy = Nil
    /\ lastSell = Nil
    /\ lastPoll = Nil
    /\ unsold = 0
    /\ sellsAccepted = 0
    /\ iterTrade = Nil
    /\ iter = FreshIter

\* an exception reaches the handler of run_trading_bot (line 185)
Raise ==
    /\ pc' = "except"
    /\ iter' = [iter EXCEPT !.erred = TRUE]

\* ------------------------------------------------------ run_trading_bot loop
\* variant of LoopTop: the test of active_trade is missing and every
\* iteration takes the IDLE branch
LoopTopAlwaysIdle ==
    /\ pc = "loop"
    /\ pc' = "balance"
    /\ FreshLocals
    /\ iterTrade' = active_trade
    /\ iter' = FreshIter
    /\ lastPoll' = Nil
    /\ lastOrder' = Nil
    /\ UNCHANGED << active_trade, unsold, lastBuy, lastSell, sellsAccepted >>

\* line 153-155, 168: a new iteration; `if active_trade:` picks the branch.
\* The locals of the previous iteration are dead and are reset; the history
\* of a trade is forgotten once an iteration begins without an ActiveTrade.
LoopTop ==
    /\ pc = "loop"
    /\ pc' = IF active_trade # Nil THEN "wait" ELSE "balance"
    /\ FreshLocals
    /\ iterTrade' = active_trade
    /\ iter' = FreshIter
    /\ lastPoll' = Nil
    /\ lastOrder' = Nil
    /\ IF active_trade # Nil
         THEN UNCHANGED << lastBuy, lastSell, sellsAccepted >>
         ELSE /\ lastBuy' = Nil
              /\ lastSell' = Nil
              /\ sellsAccepted' = 0
    /\ UNCHANGED << active_trade, unsold >>

\* line 169-173: read the free balance; below the threshold sleep and continue
GetBalance ==
    /\ pc = "balance"
    /\ \/ \E b \in Balances :
            /\ usdt_balance' = b
            /\ IF b < MinBalance
                 THEN /\ pc' = "sleep_low"
                      /\ iter' = [iter EXCEPT !.low = TRUE, !.balance = Some(b)]
                      /\ scan_idx' = scan_idx
                 ELSE /\ pc' = "scan"
                      /\ iter' = [iter EXCEPT !.balance = Some(b)]
                      /\ scan_idx' = 1
       \/ /\ Raise
          /\ UNCHANGED << usdt_balance, scan_idx >>
    /\ UNCHANGED << active_trade, best_loss, best_crypto, top_loss_crypto,
                    amount_to_invest, current_price, lot_size_filter,
                    amount_to_buy, order, sell_order, lastOrder, lastBuy,
                    lastSell, lastPoll, unsold, sellsAccepted, iterTrade >>

\* line 172-173: time.sleep(1); continue
SleepLow ==
    /\ pc = "sleep_low"
    /\ pc' = "loop"
    /\ Slept
    /\ UNCHANGED << active_trade, locals >>

\* get_top_loss_crypto lines 42-56: one turn of the for loop.  The fetch
\* returns two candles, raises BinanceAPIException (caught: the symbol is
\* skipped) or raises another exception (not caught here).
ScanSymbol ==
    /\ pc = "scan"
    /\ scan_idx <= Len(cryptos)
    /\ LET crypto == cryptos[scan_idx] IN
       \/ \E ohlcv \in Klines :
            LET price_change_percent == PriceChangePercent(ohlcv) IN
            /\ IF best_loss = Nil \/ RatioLess(price_change_percent, best_loss)
                 THEN /\ best_loss' = price_change_percent
                      /\ best_crypto' = crypto
                 ELSE UNCHANGED << best_loss, best_crypto >>
            /\ scan_idx' = scan_idx + 1
            /\ pc' = pc
            /\ iter' = [iter EXCEPT !.scanned = TRUE,
                                    !.fetched = Append(@, Some(ohlcv))]
       \/ /\ scan_idx' = scan_idx + 1
          /\ pc' = pc
          /\ iter' = [iter EXCEPT !.scanned = TRUE, !.fetched = Append(@, Nil)]
          /\ UNCHANGED << best_loss, best_crypto >>
       \/ /\ pc' = "except"
          /\ iter' = [iter EXCEPT !.scanned = TRUE, !.erred = TRUE]
          /\ UNCHANGED << best_loss, best_crypto, scan_idx >>
    /\ UNCHANGED << active_trade, usdt_balance, top_loss_crypto,
                    amount_to_invest, current_price, lot_size_filter,
                    amount_to_buy, order, sell_order, lastOrder, lastBuy,
                    lastSell, lastPoll, unsold, sellsAccepted, iterTrade >>

\* get_top_loss_crypto lines 58-59 and run_trading_bot line 175; then
\* invest_using_kelly lines 76-77
ScanDone ==
    /\ pc = "scan"
    /\ scan_idx > Len(cryptos)
    /\ top_loss_crypto' = best_crypto
    /\ amount_to_invest' = AmountToInvest(usdt_balance)
    /\ iter' = [iter EXCEPT !.scanDone = TRUE]
    /\ pc' = "ticker"
    /\ UNCHANGED << active_trade, usdt_balance, scan_idx, best_loss, best_crypto,
                    current_price, lot_size_filter, amount_to_buy, order,
                    sell_order, lastOrder, lastBuy, lastSell, lastPoll, unsold,
                    sellsAccepted, iterTrade >>

\* invest_in_crypto lines 84-85: the ticker price and the raw quantity.  What
\* the client does for symbol=None is not decided by this code: either outcome.
GetTicker ==
    /\ pc = "ticker"
    /\ \/ \E p \in Prices :
            /\ current_price' = p
            /\ amount_to_buy' = RawQuantity(amount_to_invest, p)
            /\ pc' = "rules"
            /\ iter' = [iter EXCEPT !.fetched = << >>]
       \/ /\ Raise
          /\ UNCHANGED << current_price, amount_to_buy >>
    /\ UNCHANGED << active_trade, usdt_balance, scan_idx, best_loss, best_crypto,
                    top_loss_crypto, amount_to_invest, lot_size_filter, order,
                    sell_order, lastOrder, lastBuy, lastSell, lastPoll, unsold,
                    sellsAccepted, iterTrade >>

\* variant of SymbolListed: the lookup never fails
SymbolListedAlways(crypto) == TRUE

\* invest_in_crypto line 89: next(item ... if item['symbol'] == crypto) finds
\* the symbol's rules, and raises StopIteration when no item has that symbol
SymbolListed(crypto) == crypto \in ExchangeSymbols

\* invest_in_crypto lines 88-104: the trading rules and the normalised quantity
GetRules ==
    /\ pc = "rules"
    /\ \/ /\ SymbolListed(top_loss_crypto)
          /\ \E lot \in LotSizes :
               /\ lot_size_filter' = Some(lot)
               /\ amount_to_buy' = NormalizedQuantity(amount_to_buy, lot)
          /\ pc' = "buy"
          /\ iter' = iter
       \/ /\ Raise
          /\ UNCHANGED << lot_size_filter, amount_to_buy >>
    /\ UNCHANGED << active_trade, usdt_balance, scan_idx, best_loss, best_crypto,
                    top_loss_crypto, amount_to_invest, current_price, order,
                    sell_order, lastOrder, lastBuy, lastSell, lastPoll, unsold,
                    sellsAccepted, iterTrade >>


\* invest_in_crypto lines 106-115 and run_trading_bot lines 176-179: the
\* market buy.  The exchange accepts it (an order is returned), rejects it
\* (BinanceAPIException: None is returned and the loop continues at once), or
\* the call raises another exception.  The exchange accepts no order of
\* quantity zero.
SubmitBuy ==
    /\ pc = "buy"
    /\ lastOrder' = Some([side |-> "BUY", symbol |-> top_loss_crypto,
                          quantity |-> amount_to_buy])
    /\ \/ /\ unsold < MaxUnsold
          /\ amount_to_buy > 0
          /\ \E o \in BuyOrders(amount_to_buy, current_price) :
               /\ order' = Some(o)
               /\ lastBuy' = Some([symbol |-> top_loss_crypto, fills |-> o.fills])
          /\ unsold' = unsold + 1
          /\ pc' = "record"
          /\ iter' = [iter EXCEPT !.bought = TRUE]
       \/ /\ order' = Nil
          /\ pc' = "loop"
          /\ iter' = [iter EXCEPT !.bought = TRUE]
          /\ UNCHANGED << lastBuy, unsold >>
       \/ /\ pc' = "except"
          /\ iter' = [iter EXCEPT !.bought = TRUE, !.erred = TRUE]
          /\ UNCHANGED << order, lastBuy, unsold >>
    /\ UNCHANGED << active_trade, usdt_balance, scan_idx, best_loss, best_crypto,
                    top_loss_crypto, amount_to_invest, current_price,
                    lot_size_filter, amount_to_buy, sell_order, lastSell,
                    lastPoll, sellsAccepted, iterTrade >>

\* variant of AmountBought: the last fill is read instead of the first
AmountBoughtLast(o) == o.fills[Len(o.fills)].qty

\* run_trading_bot line 181: float(order['fills'][0]['qty'])
AmountBought(o) == o.fills[1].qty

\* run_trading_bot line 182
NewTrade(crypto, buy_price, o) == << crypto, buy_price, AmountBought(o) >>

\* variant of RecordTrade: the bought position is not recorded
RecordTradeForgets ==
    /\ pc = "record"
    /\ IF order[1].fills = << >>
         THEN Raise
         ELSE /\ pc' = "sleep"
              /\ iter' = iter
    /\ UNCHANGED << active_trade, locals, lastOrder, lastBuy, lastSell, lastPoll,
                    unsold, sellsAccepted, iterTrade >>

\* run_trading_bot lines 181-183: record the ActiveTrade; an order without
\* fills raises IndexError at line 181
RecordTrade ==
    /\ pc = "record"
    /\ IF order[1].fills = << >>
         THEN /\ Raise
              /\ UNCHANGED << active_trade, lastSell, sellsAccepted >>
         ELSE /\ active_trade' = NewTrade(top_loss_crypto, current_price, order[1])
              /\ lastSell' = Nil
              /\ sellsAccepted' = 0
              /\ pc' = "sleep"
              /\ iter' = iter
    /\ UNCHANGED << locals, lastOrder, lastBuy, lastPoll, unsold, iterTrade >>

\* wait_for_pump lines 121-129: one poll of the price of the held symbol
PollPrice ==
    /\ pc = "wait"
    /\ LET buy_price == active_trade[2] IN
       \/ \E p \in Prices :
            /\ lastPoll' = Some([ok |-> TRUE, price |-> p])
            /\ pc' = IF TargetReached(p, buy_price) THEN "sell" ELSE "wait_sleep"
            /\ iter' = iter
       \/ /\ lastPoll' = Some([ok |-> FALSE, price |-> 0])
          /\ pc' = "wait_sleep"
          /\ iter' = iter
       \/ /\ lastPoll' = Some([ok |-> FALSE, price |-> 0])
          /\ Raise
    /\ UNCHANGED << active_trade, locals, lastOrder, lastBuy, lastSell, unsold,
                    sellsAccepted, iterTrade >>

\* wait_for_pump lines 126, 129: time.sleep(1), then poll again
WaitSleep ==
    /\ pc = "wait_sleep"
    /\ pc' = "wait"
    /\ Slept
    /\ UNCHANGED << active_trade, locals >>

\* sell_crypto lines 135-139, 143-145: the market sell of the ActiveTrade
SubmitSell ==
    /\ pc = "sell"
    /\ LET crypto        == active_trade[1]
           amount_bought == active_trade[3]
           quantity      == SellQuantity(amount_bought)
       IN
       /\ lastOrder' = Some([side |-> "SELL", symbol |-> crypto,
                             quantity |-> quantity])
       /\ \/ /\ sellsAccepted < MaxSells
             /\ quantity > 0
             /\ \E o \in SellOrders(quantity, lastPoll[1].price) :
                  sell_order' = Some(o)
             /\ sellsAccepted' = sellsAccepted + 1
             /\ unsold' = IF unsold > 0 THEN unsold - 1 ELSE 0
             /\ lastSell' = Some([trade |-> active_trade, result |-> "accepted"])
             /\ pc' = "sold"
             /\ iter' = iter
          \/ /\ sell_order' = Nil
             /\ lastSell' = Some([trade |-> active_trade, result |-> "failed"])
             /\ pc' = "sold"
             /\ iter' = iter
             /\ UNCHANGED << sellsAccepted, unsold >>
          \/ /\ lastSell' = Some([trade |-> active_trade, result |-> "raised"])
             /\ Raise
             /\ UNCHANGED << sell_order, sellsAccepted, unsold >>
    /\ UNCHANGED << active_trade, usdt_balance, scan_idx, best_loss, best_crypto,
                    top_loss_crypto, amount_to_invest, current_price,
                    lot_size_filter, amount_to_buy, order, lastBuy, lastPoll,
                    iterTrade >>

\* variant of SellResult: the ActiveTrade is kept whatever sell_crypto returned
SellResultNeverClears ==
    /\ pc = "sold"
    /\ pc' = "sleep_hold"
    /\ UNCHANGED << active_trade, locals, history >>

\* variant of SellResult: the ActiveTrade is cleared whatever sell_crypto returned
SellResultAlwaysClears ==
    /\ pc = "sold"
    /\ active_trade' = Nil
    /\ pc' = "sleep_hold"
    /\ UNCHANGED << locals, history >>

\* sell_crypto lines 140-142 and run_trading_bot lines 160-165: an accepted
\* order without fills raises IndexError at line 140; a returned order clears
\* the ActiveTrade; None leaves it
SellResult ==
    /\ pc = "sold"
    /\ IF sell_order = Nil
         THEN /\ pc' = "sleep_hold"
              /\ UNCHANGED << active_trade, iter >>
         ELSE IF sell_order[1].fills = << >>
         THEN /\ Raise
              /\ UNCHANGED active_trade
         ELSE /\ active_trade' = Nil
              /\ pc' = "sleep_hold"
              /\ iter' = iter
    /\ UNCHANGED << locals, lastOrder, lastBuy, lastSell, lastPoll, unsold,
                    sellsAccepted, iterTrade >>

\* run_trading_bot line 166
SleepHold ==
    /\ pc = "sleep_hold"
    /\ pc' = "sleep"
    /\ Slept
    /\ UNCHANGED << active_trade, locals >>

\* variant of HandleError: the handler drops the ActiveTrade
HandleErrorReset ==
    /\ pc = "except"
    /\ pc' = "sleep"
    /\ active_trade' = Nil
    /\ UNCHANGED << locals, history >>

\* run_trading_bot lines 185-187: log the error and sleep
HandleError ==
    /\ pc = "except"
    /\ pc' = "sleep"
    /\ Slept
    /\ UNCHANGED << active_trade, locals >>

\* run_trading_bot line 189
Sleep ==
    /\ pc = "sleep"
    /\ pc' = "loop"
    /\ Slept
    /\ UNCHANGED << active_trade, locals >>

Next ==
    \/ LoopTop
    \/ GetBalance
    \/ SleepLow
    \/ ScanSymbol
    \/ ScanDone
    \/ GetTicker
    \/ GetRules
    \/ SubmitBuy
    \/ RecordTrade
    \/ PollPrice
    \/ WaitSleep
    \/ SubmitSell
    \/ SellResult
    \/ SleepHold
    \/ HandleError
    \/ Sleep

Spec == Init /\ [][Next]_vars

\* run_trading_bot is a `while True` loop on one thread whose blocking calls
\* all return or raise: the loop always takes its next step
FairSpec == Spec /\ WF_vars(Next)


\* ------------------------------------------------------------------ claims
IdlePcs == {"balance", "sleep_low", "scan", "ticker", "rules", "buy", "record"}

HoldingPcs == {"wait", "wait_sleep", "sell", "sold", "sleep_hold"}

SubmittedBuy == lastOrder # Nil /\ lastOrder[1].side = "BUY"

SubmittedSell == lastOrder # Nil /\ lastOrder[1].side = "SELL"

\* C1: there is zero or one ActiveTrade, and a market buy is submitted only
\* from IDLE: never while an ActiveTrade exists.
C1_SinglePosition ==
    /\ active_trade = Nil \/ Len(active_trade) = 3
    /\ pc \in {"buy", "record"} => active_trade = Nil
    /\ SubmittedBuy => iterTrade = Nil
    /\ pc \in IdlePcs => active_trade = Nil
    /\ pc \in HoldingPcs \ {"sleep_hold"} => active_trade # Nil

\* C1 witness: a buy was submitted from IDLE and the exchange accepted it
C1_Witness ==
    /\ SubmittedBuy
    /\ pc = "record"
    /\ unsold = 1

\* C2: once the exchange has accepted a buy, the loop is not back in IDLE,
\* able to buy again, while that buy has not been sold.
C2_AcceptedBuyHeld ==
    (active_trade = Nil /\ pc \in {"loop", "balance", "sleep_low", "scan", "ticker", "rules", "buy"})
        => unsold = 0

\* C3: once the exchange has accepted the sell of the ActiveTrade, the
\* ActiveTrade is cleared before any further order, so that no ActiveTrade is
\* sold twice.
C3_SoldOnce ==
    /\ sellsAccepted <= 1
    /\ (sellsAccepted >= 1 /\ pc \in {"loop", "wait", "wait_sleep", "sell", "buy"})
          => active_trade = Nil

\* C4: after a failed sell (sell_crypto returned None) the ActiveTrade is the
\* one that was being sold, the loop is in HOLDING, and no buy is submitted:
\* what follows is the wait-for-rebound / sell cycle.
C4_FailedSellKeepsTrade ==
    (lastSell # Nil /\ lastSell[1].result = "failed") =>
        /\ active_trade = lastSell[1].trade
        /\ active_trade # Nil
        /\ pc \in HoldingPcs \cup {"sleep", "loop", "except"}
        /\ ~ SubmittedBuy

\* C4 witness: after a failed sell the loop has waited again and is about to
\* resubmit the sell of the same trade
C4_Witness ==
    /\ lastSell # Nil
    /\ lastSell[1].result = "failed"
    /\ pc = "sell"
    /\ active_trade = lastSell[1].trade

\* C5: every sell submission follows, within its own iteration, a successful
\* price observation with price >= buy_price * 1.005; while the last poll was
\* a failure or a price below the target, no order is submitted.
C5_SellAfterTarget ==
    (iterTrade # Nil /\ (pc = "sell" \/ lastOrder # Nil)) =>
        /\ lastPoll # Nil
        /\ lastPoll[1].ok
        /\ lastPoll[1].price * 1000 >= iterTrade[2] * 1005

\* C5 witness: a sell was submitted on an observation exactly at the target
C5_Witness ==
    /\ SubmittedSell
    /\ iterTrade # Nil
    /\ iterTrade[2] = 2000
    /\ lastPoll # Nil
    /\ lastPoll[1].price = 2010

\* C6: every sell is submitted for the symbol of the most recent accepted buy
\* and for the quantity recorded from it, rounded to 6 decimals; it is the
\* symbol and quantity of the ActiveTrade of that iteration.
C6_SellFromTrade ==
    SubmittedSell =>
        /\ lastBuy # Nil
        /\ lastBuy[1].fills # << >>
        /\ lastOrder[1].symbol = lastBuy[1].symbol
        /\ lastOrder[1].quantity = PyRound(lastBuy[1].fills[1].qty, 6)
        /\ iterTrade # Nil
        /\ lastOrder[1].symbol = iterTrade[1]
        /\ lastOrder[1].quantity = PyRound(iterTrade[3], 6)

\* C6 witness: a sell was submitted whose quantity the rounding changed, of a
\* buy that was filled in two parts
C6_Witness ==
    /\ SubmittedSell
    /\ lastOrder[1].quantity # iterTrade[3]
    /\ lastBuy # Nil
    /\ Len(lastBuy[1].fills) = 2

\* C7: the quantity of every submitted market buy is at least minQty and a
\* multiple of stepSize.
C7_QuantityValid ==
    SubmittedBuy =>
        /\ lastOrder[1].quantity >= ParseDecimal(lot_size_filter[1].minQty)
        /\ lastOrder[1].quantity % ParseDecimal(lot_size_filter[1].stepSize) = 0

\* C8: an error raised in an iteration leaves the ActiveTrade as it was when
\* the iteration began, the loop sleeps and starts the next iteration, and no
\* state of the loop is terminal.
C8_ErrorKeepsState ==
    /\ iter.erred =>
          /\ active_trade = iterTrade
          /\ pc \in {"except", "sleep", "loop"}
    /\ ENABLED Next

\* C8 witness: an iteration of HOLDING ended in an error and the next
\* iteration is about to begin with the same ActiveTrade
C8_Witness ==
    /\ iter.erred
    /\ pc = "loop"
    /\ active_trade # Nil
    /\ active_trade = iterTrade

\* C9, first half: an iteration that read a balance below the threshold
\* scans nothing, submits nothing, stays IDLE and sleeps before it retries.
C9_LowBalanceIdle ==
    iter.low =>
        /\ usdt_balance < MinBalance
        /\ ~ iter.scanned
        /\ ~ iter.bought
        /\ lastOrder = Nil
        /\ active_trade = Nil
        /\ pc \in {"sleep_low", "loop"}

\* C9, second half: with balance >= 10, once invest_using_kelly has returned
\* an order the loop is in HOLDING.
C9_BuyLeadsToHolding ==
    (order # Nil /\ pc # "record") =>
        /\ usdt_balance >= MinBalance
        /\ active_trade # Nil

\* C9: a balance below 10 means no scan and no buy in that iteration and the
\* loop stays IDLE; a balance >= 10 and a successful buy lead to HOLDING.
C9_BalanceGate == C9_LowBalanceIdle /\ C9_BuyLeadsToHolding

\* C10: when the scan ended with no symbol (every candle fetch failed), the
\* iteration submits no buy and records no ActiveTrade, and the loop retries.
C10_NoSymbolNoBuy ==
    (iter.scanDone /\ top_loss_crypto = None) =>
        /\ ~ iter.bought
        /\ lastOrder = Nil
        /\ active_trade = Nil
        /\ pc \in {"ticker", "rules", "except", "sleep", "loop"}

\* C10 witness: a scan of the whole watchlist found no symbol and the
\* iteration has ended, the next one about to begin
C10_Witness ==
    /\ iter.scanDone
    /\ iter.scanned
    /\ top_loss_crypto = None
    /\ scan_idx = Len(cryptos) + 1
    /\ pc = "loop"


\* C11: after a buy failure and after an insufficient-balance check the loop is
\* IDLE and has slept before the next iteration begins: the IDLE phase is never
\* retried with no delay in between.
C11_DelayBeforeRetry ==
    (pc = "loop" /\ active_trade = Nil /\ (iter.low \/ iter.bought)) => iter.slept

\* the symbols of the scan whose fetch returned candles, by watchlist position
Fetched == { k \in 1..Len(iter.fetched) : iter.fetched[k] # Nil }

\* (close - open) / open of symbol j is below that of symbol k
ChangeBelow(j, k) ==
    LET oj == iter.fetched[j][1][1].open
        cj == iter.fetched[j][1][2].close
        ok == iter.fetched[k][1][1].open
        ck == iter.fetched[k][1][2].close
    IN  (cj - oj) * ok < (ck - ok) * oj

ScanReturned == iter.scanDone /\ Len(iter.fetched) = Len(cryptos)

\* C12: get_top_loss_crypto returns the symbol of minimal percent change among
\* the symbols it fetched, the first of them in watchlist order when several
\* reach the minimum, whatever the sign of the changes.
C12_FirstMinimum ==
    (ScanReturned /\ Fetched # {}) =>
        \E k \in Fetched :
            /\ top_loss_crypto = cryptos[k]
            /\ \A j \in Fetched : ~ ChangeBelow(j, k)
            /\ \A j \in Fetched : j < k => ChangeBelow(k, j)

\* C12 witness: two symbols tie at the minimum with different candles and the
\* scan returned the first of them
C12_Witness ==
    /\ ScanReturned
    /\ Fetched = 1..Len(cryptos)
    /\ iter.fetched[1] # iter.fetched[2]
    /\ ~ ChangeBelow(1, 2)
    /\ ~ ChangeBelow(2, 1)
    /\ \A j \in Fetched : ~ ChangeBelow(j, 1)
    /\ top_loss_crypto = cryptos[1]


\* C13, the scan is not aborted: once the scan has fetched a symbol the loop
\* stays in the scan until the scan returns.
C13_ScanNotAborted == (iter.scanned /\ ~ iter.scanDone) => pc = "scan"

\* C13, the result: a scan that returned has fetched every symbol of the
\* watchlist, and returned none only if every fetch failed.
C13_ScanResult ==
    ScanReturned => (top_loss_crypto = None <=> Fetched = {})

\* C13: a fetch failure skips only its symbol and never aborts the scan; the
\* scan returns none only if the fetch failed for every symbol.
C13_FailureSkipsSymbol == C13_ScanNotAborted /\ C13_ScanResult


\* the number of decimals of a decimal string: the digits after the point up
\* to the last one that is not zero
RECURSIVE LastNonZero(_, _)
LastNonZero(s, k) ==
    IF k = 0 THEN 0
    ELSE IF s[k] \notin {"0", "."} THEN k
    ELSE LastNonZero(s, k - 1)

StepDecimals(s) == Max(0, LastNonZero(s, Len(s)) - (Find(s, ".") + 1))

\* max(minQty, floor(raw / stepSize) * stepSize), rounded to the decimals of stepSize
ExpectedQuantity(amount, price, lot) ==
    LET raw       == TrueDiv(amount[1], amount[2] * price)
        min_qty   == ParseDecimal(lot.minQty)
        step_size == ParseDecimal(lot.stepSize)
    IN  PyRound(Max(min_qty, (raw \div step_size) * step_size),
                StepDecimals(lot.stepSize))

\* C14, the example: minQty = stepSize = 0.001 and raw 0.00456 give 0.004
C14_Example ==
    \A lot \in LotSizes :
        (ParseDecimal(lot.minQty) = 100000 /\ ParseDecimal(lot.stepSize) = 100000)
            => NormalizedQuantity(456000, lot) = 400000

\* C14: the quantity of the buy about to be submitted is
\* max(minQty, floor(raw / stepSize) * stepSize) rounded to the precision of
\* stepSize, with raw = amount_to_invest / current_price.
C14_QuantityFormula ==
    /\ C14_Example
    /\ pc = "buy" =>
         amount_to_buy =
            ExpectedQuantity(amount_to_invest, current_price, lot_size_filter[1])

\* C14 for step sizes below 1
C14_QuantityFormulaSmallStep ==
    (pc = "buy" /\ ParseDecimal(lot_size_filter[1].stepSize) < QtyScale) =>
         amount_to_buy =
            ExpectedQuantity(amount_to_invest, current_price, lot_size_filter[1])


\* C15: the amount to invest is 0.4 (the Kelly fraction of win_prob 0.6 and
\* win_loss_ratio 2) of the free balance read in the same iteration.
C15_KellyAmount ==
    amount_to_invest # Nil =>
        /\ iter.balance # Nil
        /\ amount_to_invest[2] > 0
        /\ amount_to_invest[1] * 10 = 4 * iter.balance[1] * amount_to_invest[2]

C15_Witness ==
    /\ pc = "buy"
    /\ iter.balance = Some(100)
    /\ amount_to_invest # Nil
    /\ amount_to_invest[1] = 40 * amount_to_invest[2]


\* the trade of the end-to-end scenario: 0.02 ETH bought at 2000
EthTrade == << "ETHUSDT", 2000, 2000000 >>

\* the trading rules admit the quantity q
RulesAllow(q, lot) ==
    /\ ParseDecimal(lot.minQty) <= q
    /\ q % ParseDecimal(lot.stepSize) = 0

C16_State ==
    /\ (pc \in {"ticker", "rules", "buy", "record"} /\ iter.balance = Some(100))
          => amount_to_invest[1] = 40 * amount_to_invest[2]
    /\ (/\ pc = "buy"
        /\ iter.balance = Some(100)
        /\ top_loss_crypto = EthTrade[1]
        /\ current_price = EthTrade[2]
        /\ RulesAllow(EthTrade[3], lot_size_filter[1]))
          => amount_to_buy = EthTrade[3]
    /\ (pc \in {"sell", "sold"} /\ active_trade = EthTrade)
          => /\ lastPoll # Nil
             /\ lastPoll[1].ok
             /\ lastPoll[1].price >= 2010
    /\ (SubmittedSell /\ lastSell # Nil /\ lastSell[1].trade = EthTrade)
          => lastOrder[1] = [side |-> "SELL", symbol |-> EthTrade[1],
                             quantity |-> EthTrade[3]]
    /\ pc = "scan"
          => /\ active_trade = Nil
             /\ iter.balance # Nil
             /\ usdt_balance = iter.balance[1]

C16_Step ==
    /\ (/\ pc = "record"
        /\ top_loss_crypto = EthTrade[1]
        /\ current_price = EthTrade[2]
        /\ order[1].fills = << [qty |-> EthTrade[3], price |-> EthTrade[2]] >>)
          => active_trade' = EthTrade
    /\ (pc = "loop" /\ active_trade = EthTrade) => pc' = "wait"
    /\ (/\ pc = "sold"
        /\ active_trade = EthTrade
        /\ sell_order # Nil
        /\ sell_order[1].fills # << >>)
          => active_trade' = Nil
    /\ (pc = "loop" /\ active_trade = Nil) => pc' = "balance"

\* C16: the end-to-end cycle.  With balance 100 the loop invests 40; for
\* ETHUSDT at 2000 it submits a buy of 0.02, and the order filled with 0.02 at
\* 2000 becomes the ActiveTrade (HOLDING); that trade is sold only after a poll
\* returned a price >= 2010, for quantity 0.02; an executed sell clears the
\* ActiveTrade, the next iteration takes the IDLE branch, and a scan runs only
\* after the balance was read again.
C16_EndToEnd == [] C16_State /\ [][C16_Step]_vars

C16_Witness ==
    /\ pc = "sleep_hold"
    /\ active_trade = Nil
    /\ lastBuy = Some([symbol |-> EthTrade[1],
                       fills |-> << [qty |-> EthTrade[3], price |-> EthTrade[2]] >>])
    /\ lastPoll = Some([ok |-> TRUE, price |-> 2010])
    /\ lastOrder = Some([side |-> "SELL", symbol |-> EthTrade[1],
                         quantity |-> EthTrade[3]])
    /\ lastSell = Some([trade |-> EthTrade, result |-> "accepted"])


\* the distance between two quantities
Dist(a, b) == IF a >= b THEN a - b ELSE b - a

\* C17: the quantity of a submitted sell is the ActiveTrade's quantity rounded
\* to the nearest value with six decimals (1.23456789 becomes 1.234568), and
\* the sell path reads no trading rules.
C17_SellSixDecimals ==
    /\ SellQuantity(123456789) = 123456800
    /\ (SubmittedSell /\ lastSell # Nil) =>
          LET amount   == lastSell[1].trade[3]
              quantity == lastOrder[1].quantity
          IN  /\ quantity % 100 = 0
              /\ 2 * Dist(quantity, amount) <= 100
              /\ lot_size_filter = Nil

C17_Witness ==
    /\ SubmittedSell
    /\ lastSell # Nil
    /\ lastSell[1].trade[3] = 88888889
    /\ lastOrder[1].quantity = 88888900


\* the total quantity of a sequence of fills
RECURSIVE FilledQty(_)
FilledQty(fills) ==
    IF fills = << >> THEN 0 ELSE fills[1].qty + FilledQty(Tail(fills))

C18_Quantity ==
    (active_trade # Nil /\ lastBuy # Nil) =>
        active_trade[3] = FilledQty(lastBuy[1].fills)

C18_Price ==
    (active_trade # Nil /\ lastBuy # Nil) =>
        \A k \in 1..Len(lastBuy[1].fills) :
            active_trade[2] = lastBuy[1].fills[k].price

\* C18: the ActiveTrade's quantity is the total quantity filled by the buy
\* order over all of its fills, and its buy price is the order's fill price.
C18_TradeIsFill == C18_Quantity /\ C18_Price


\* an order was returned with at least one fill
Executed(o) == o # Nil /\ o[1].fills # << >>

\* whenever polled again and again, the price eventually reaches the target
PriceEventuallyReached == []<>(pc = "wait") => []<>(pc = "sell")

\* sells submitted again and again eventually execute
SellEventuallySucceeds ==
    []<>(pc = "sell") => []<>(pc = "sold" /\ Executed(sell_order))

\* the balance read again and again is eventually at least the threshold
BalanceEventuallyEnough == []<>(pc = "balance") => []<>(pc = "scan")

\* scans run again and again eventually lead to the submission of a buy
ScanEventuallyFinds == []<>(pc = "scan") => []<>(pc = "buy")

\* buys submitted again and again eventually execute
BuyEventuallySucceeds ==
    []<>(pc = "buy") => []<>(pc = "record" /\ Executed(order))

C19_NeverStuck == [](ENABLED Next)

C19_HoldingToIdle ==
    (PriceEventuallyReached /\ SellEventuallySucceeds)
        => ((active_trade # Nil) ~> (active_trade = Nil))

C19_IdleToHolding ==
    /\ (pc = "record" /\ Executed(order)) ~> (active_trade # Nil)
    /\ (BalanceEventuallyEnough /\ ScanEventuallyFinds /\ BuyEventuallySucceeds)
          => ((active_trade = Nil) ~> (active_trade # Nil))

\* C19: the loop always has a step to take; while HOLDING, if polls
\* eventually return a price at the target and sells eventually execute, the
\* ActiveTrade is eventually cleared; while IDLE, an executed buy leads to
\* HOLDING, and it is eventually reached if balances, scans and buys
\* eventually succeed.
C19_Progress == C19_NeverStuck /\ C19_HoldingToIdle /\ C19_IdleToHolding

C19_Witness ==
    /\ iterTrade # Nil
    /\ active_trade = Nil
    /\ pc = "sleep"
    /\ lastSell # Nil
    /\ lastSell[1].result = "accepted"
    /\ lastPoll # Nil
    /\ lastPoll[1].ok


\* quantity * price <= amount, for a quantity in units of 10^-8
NotionalWithin(quantity, price, amount) ==
    quantity <= TrueDiv(amount[1], amount[2] * price)

\* C20: the notional value of a submitted buy (quantity times the ticker
\* price) does not exceed amount_to_invest, which does not exceed the balance.
C20_NotionalBound ==
    SubmittedBuy =>
        /\ NotionalWithin(lastOrder[1].quantity, current_price, amount_to_invest)
        /\ amount_to_invest[1] <= usdt_balance * amount_to_invest[2]

\* the weaker bound: a submitted buy is worth no more than the whole balance
C20_WithinBalance ==
    SubmittedBuy =>
        NotionalWithin(lastOrder[1].quantity, current_price, << usdt_balance, 1 >>)

====
